---- MODULE Spec2Model ----
(***************************************************************************)
(* State-machine model of the client-side script of the portfolio site    *)
(* (src/unnamed/part_000, the current script; src/script.js is its older  *)
(* revision with the same project-modal code).                            *)
(*                                                                         *)
(* The program state is gathered in one record (Cur) so that a handler is  *)
(* a function from state to state, written in the order of its source      *)
(* statements; handlers that call other handlers (Escape, editBlog,        *)
(* deleteBlog) are compositions of those functions.                        *)
(*                                                                         *)
(* DOM elements are names.  An element that has been removed from the      *)
(* document (innerHTML rewritten) can never be focused again and never     *)
(* equals document.activeElement, so every reference to it is rewritten to *)
(* the single name Detached at the moment of removal.                      *)
(***************************************************************************)
EXTENDS Integers, Sequences, FiniteSets, TLC

VARIABLES
  present,        \* ids/selectors of the page that resolve to an element
  aria,           \* aria[s]: the modal's aria-hidden attribute
  display,        \* display[s]: modal.style.display
  openAttr,       \* openAttr[s]: the modal carries the "open" attribute
  timers,         \* timers[s]: pending setTimeout(..., 20) callbacks
  overflow,       \* document.body.style.overflow
  lastFocused,    \* the script-level variable lastFocused
  focus,          \* document.activeElement
  currentBlogId,  \* state.currentBlogId
  blogs,          \* state.blogs
  adminAuth,      \* localStorage[ADMIN_AUTH_KEY] === "true"
  adminPass,      \* localStorage[ADMIN_PASS_KEY]
  content,        \* content[s]: focusable elements now inside the modal body
  traps,          \* traps[s]: keydown listeners installed on the container
  savedBlogs,     \* localStorage["portfolio-blogs"]: <<>> or <<the saved list>>
  script,         \* the revision of the script the page runs: "current" or "old"
  posts,          \* state.posts (src/script.js)
  savedPosts,     \* localStorage["portfolio-posts"]: <<>> or <<the saved list>>
  projects,       \* state.projects
  filteredProjects, \* state.filteredProjects
  currentFilter,  \* state.currentFilter
  projectsPc,     \* position of the async initProjects: "fetch" or "done"
  theme,          \* state.theme
  savedTheme,     \* localStorage["portfolio-theme"]
  searchValue,    \* the value of the #search-projects input
  searchTimer,    \* the debounce timer of the search input is pending
  lastQuery,      \* q of the latest run of the search callback (history)
  form,           \* #contact-form: the values of its fields and their error texts
  submitBtn,      \* the submit button: disabled, textContent, dataset.origText
  contactPc,      \* the submit handler: idle, awaiting fetch, awaiting res.json()
  memo,           \* history: surface and activeElement of the latest open
  tabRun,         \* history: run of plain Tab presses started on the first focusable
  lastOp          \* history: the handler that ran last

vars == <<present, aria, display, openAttr, timers, overflow, lastFocused, focus,
          currentBlogId, blogs, adminAuth, adminPass, content, traps, savedBlogs,
          script, posts, savedPosts, projects, filteredProjects, currentFilter,
          projectsPc, theme, savedTheme, searchValue, searchTimer, lastQuery,
          form, submitBtn, contactPc, memo, tabRun, lastOp>>

(***************************************************************************)
(* Bounds of the model.                                                    *)
(***************************************************************************)
\* most keydown listeners one container collects (opens of one surface)
MaxTraps == 2
\* most 20 ms timers pending on one surface
MaxTimers == 1

(***************************************************************************)
(* Names.                                                                  *)
(***************************************************************************)
Null == "null"
Detached == "detached"
Body == "body"
\* state.currentBlogId: null
NullId == 0

Surfaces == {"project", "blog"}

ModalId == [project |-> "project-modal", blog |-> "blog-modal"]
BodyId == [project |-> "modal-body", blog |-> "blog-modal-body"]
CloseSel == [project |-> "#project-modal .modal-close", blog |-> "#blog-modal .modal-close"]
Handles == {ModalId[s] : s \in Surfaces} \cup {BodyId[s] : s \in Surfaces}
             \cup {CloseSel[s] : s \in Surfaces}

\* the close control of each modal and the focusable elements its body can hold
CloseEl == [project |-> "pclose", blog |-> "bclose"]
ContentEl == [project |-> <<"p1", "p2">>, blog |-> <<"b1", "b2", "b3">>]
PageEls == {"nav", "pcard", "bcard"}

SeqToSet(q) == {q[i] : i \in 1..Len(q)}

SurfaceOf(e) ==
  IF e = CloseEl["project"] \/ e \in SeqToSet(ContentEl["project"]) THEN "project"
  ELSE IF e = CloseEl["blog"] \/ e \in SeqToSet(ContentEl["blog"]) THEN "blog"
  ELSE "page"

(***************************************************************************)
(* The program state as one record; w ranges over such records.            *)
(***************************************************************************)
Cur ==
  [present |-> present, aria |-> aria, display |-> display, openAttr |-> openAttr,
   timers |-> timers, overflow |-> overflow, lastFocused |-> lastFocused,
   focus |-> focus, currentBlogId |-> currentBlogId, blogs |-> blogs,
   adminAuth |-> adminAuth, adminPass |-> adminPass, content |-> content,
   traps |-> traps, savedBlogs |-> savedBlogs, script |-> script, posts |-> posts,
   savedPosts |-> savedPosts, projects |-> projects,
   filteredProjects |-> filteredProjects, currentFilter |-> currentFilter,
   projectsPc |-> projectsPc, theme |-> theme, savedTheme |-> savedTheme,
   searchValue |-> searchValue, searchTimer |-> searchTimer, lastQuery |-> lastQuery,
   form |-> form, submitBtn |-> submitBtn, contactPc |-> contactPc,
   memo |-> memo]

(***************************************************************************)
(* The document.                                                           *)
(***************************************************************************)
\* Document order inside a modal container: the close control precedes the
\* body (the page's markup is not part of the sources; the order is the one
\* of the specification's scenario [Close, Link, Button]).
ContainerOrder(closeEls, bodyEls) == closeEls \o bodyEls

\* container.querySelectorAll('a[href], button:not([disabled]), ...')
Focusable(w, s) ==
  ContainerOrder(IF CloseSel[s] \in w.present THEN <<CloseEl[s]>> ELSE <<>>,
                 SubSeq(ContentEl[s], 1, w.content[s]))

\* e is in the document and rendered, so that e.focus() takes effect
Rendered(w, e) ==
  CASE e \in {"nav", "pcard"} -> TRUE
    [] e = "bcard" -> Len(w.blogs) > 0
    [] SurfaceOf(e) \in Surfaces ->
         /\ w.display[SurfaceOf(e)] = "flex"
         /\ e \in SeqToSet(Focusable(w, SurfaceOf(e)))
    [] OTHER -> FALSE

\* element.focus(): no effect on an element that is detached or not rendered
focusEl(w, e) == IF Rendered(w, e) THEN [w EXCEPT !.focus = e] ELSE w

\* the browser's focus fix-up: when the focused element stops being rendered,
\* document.activeElement falls back to the body
fixup(w) == IF w.focus = Body \/ Rendered(w, w.focus) THEN w ELSE [w EXCEPT !.focus = Body]

Sub(e, gone) == IF e \in gone THEN Detached ELSE e

\* the elements of `gone` leave the document: every reference held to them
\* (lastFocused, the first/last captured by keyHandler closures) is stale
detach(w, gone) ==
  [w EXCEPT !.lastFocused = Sub(@, gone),
            !.memo = [@ EXCEPT !.e = Sub(@, gone)],
            !.focus = IF @ \in gone THEN Body ELSE @,
            !.traps = [s \in Surfaces |->
                         [i \in 1..Len(w.traps[s]) |->
                            [first |-> Sub(w.traps[s][i].first, gone),
                             last |-> Sub(w.traps[s][i].last, gone)]]]]

\* body.innerHTML = `...` with n focusable elements in the new markup
setInnerHTML(w, s, n) ==
  [detach(w, SeqToSet(SubSeq(ContentEl[s], 1, w.content[s]))) EXCEPT !.content[s] = n]

(***************************************************************************)
(* Focus trap: trapFocus(container) and the keyHandler closure it installs *)
(***************************************************************************)
\* trapFocus: one more keydown listener on the container, holding the first
\* and last element of the focusable list computed now
trapFocus(w, s) ==
  LET focusable == Focusable(w, s) IN
  IF Len(focusable) = 0 THEN w
  ELSE [w EXCEPT !.traps[s] =
          Append(@, [first |-> focusable[1], last |-> focusable[Len(focusable)]])]

\* keyHandler with last.focus() in both branches: Tab on the last element
\* does not wrap to the first
keyHandlerNoWrap(k, h, shift) ==
  IF shift /\ k.w.focus = h.first THEN [w |-> focusEl(k.w, h.last), prevented |-> TRUE]
  ELSE IF ~shift /\ k.w.focus = h.last THEN [w |-> focusEl(k.w, h.last), prevented |-> TRUE]
  ELSE k

\* one keyHandler call for a Tab keydown: k = [w, prevented]
keyHandler(k, h, shift) ==
  IF shift /\ k.w.focus = h.first THEN [w |-> focusEl(k.w, h.last), prevented |-> TRUE]
  ELSE IF ~shift /\ k.w.focus = h.last THEN [w |-> focusEl(k.w, h.first), prevented |-> TRUE]
  ELSE k

\* the listeners of one container run in the order they were added
RECURSIVE runHandlers(_, _, _)
runHandlers(k, hs, shift) ==
  IF Len(hs) = 0 THEN k ELSE runHandlers(keyHandler(k, Head(hs), shift), Tail(hs), shift)

\* sequential focus navigation order of the document: the page's own
\* controls, then the modals that are displayed
TabOrder(w) ==
  <<"nav", "pcard">> \o (IF Len(w.blogs) > 0 THEN <<"bcard">> ELSE <<>>)
    \o (IF w.display["project"] = "flex" THEN Focusable(w, "project") ELSE <<>>)
    \o (IF w.display["blog"] = "flex" THEN Focusable(w, "blog") ELSE <<>>)

IndexOf(q, e) == CHOOSE i \in 1..Len(q) : q[i] = e

\* the browser's default action for Tab / Shift+Tab: from the body into the
\* document, past either end of the document back to the body
nativeTab(w, shift) ==
  LET order == TabOrder(w)
      i == IF w.focus = Body THEN (IF shift THEN Len(order) + 1 ELSE 0)
           ELSE IndexOf(order, w.focus)
      j == IF shift THEN i - 1 ELSE i + 1
  IN [w EXCEPT !.focus = IF j \in 1..Len(order) THEN order[j] ELSE Body]

\* a Tab keydown: it bubbles from document.activeElement through the modal
\* container that holds it, then the default action runs unless prevented
tabKey(w, shift) ==
  LET s == SurfaceOf(w.focus)
      k == IF s \in Surfaces
           THEN runHandlers([w |-> w, prevented |-> FALSE], w.traps[s], shift)
           ELSE [w |-> w, prevented |-> FALSE]
  IN IF k.prevented THEN k.w ELSE nativeTab(k.w, shift)

(***************************************************************************)
(* Theme                                                                   *)
(***************************************************************************)
Themes == {"light", "dark"}

\* initTheme: state.theme = saved || system.  (applyTheme writes the
\* data-theme attribute and the icons from its argument alone.)
initTheme(w, system) ==
  [w EXCEPT !.theme = IF w.savedTheme # Null THEN w.savedTheme ELSE system]

\* toggleTheme that does not persist the new value
toggleThemeNoSave(w) ==
  [w EXCEPT !.theme = IF w.theme = "light" THEN "dark" ELSE "light"]

toggleTheme(w) ==
  LET w1 == [w EXCEPT !.theme = IF w.theme = "light" THEN "dark" ELSE "light"]
  IN [w1 EXCEPT !.savedTheme = w1.theme]

\* the "change" listener of matchMedia("(prefers-color-scheme: dark)")
systemThemeChange(w, matches) ==
  IF w.savedTheme = Null
  THEN [w EXCEPT !.theme = IF matches THEN "dark" ELSE "light"]
  ELSE w

(***************************************************************************)
(* Projects: initProjects and the tag filter                               *)
(***************************************************************************)
\* a project: its id, title, tags, and the links of its modal markup
\* (project.github, project.demo)
demoProjects ==
  << [id |-> 101, title |-> "Demo Shop", tags |-> <<"React", "Node.js">>, links |-> 2] >>

\* a JSON value is an array (with its items) or something else
JsonArray(items) == [kind |-> "array", items |-> items]
JsonOther(kind) == [kind |-> kind, items |-> <<>>]
\* Array.isArray(data)
IsArray(data) == data.kind = "array"

\* projects.slice()
Slice(q) == SubSeq(q, 1, Len(q))

\* renderProjects: the grid is emptied and a card is created per project
renderProjects(w) == detach(w, {"pcard"})

\* initProjects without the catch: a failed fetch leaves state.projects as it is
initProjectsNoFallback(w, res) ==
  LET failed == res.status # "ok" \/ ~res.parses
      list == IF failed THEN w.projects
              ELSE IF IsArray(res.data) THEN res.data.items ELSE <<>>
      w1 == [w EXCEPT !.projects = list, !.projectsPc = "done"]
  IN renderProjects([w1 EXCEPT !.filteredProjects = Slice(w1.projects)])

\* initProjects, from the settling of fetch("projects.json") on; res is the
\* outcome: status "neterr" (fetch rejects), "notok" (!res.ok) or "ok",
\* whether res.json() parses the body, and the parsed value
initProjects(w, res) ==
  LET failed == res.status # "ok" \/ ~res.parses
      list == IF failed THEN demoProjects
              ELSE IF IsArray(res.data) THEN res.data.items ELSE <<>>
      w1 == [w EXCEPT !.projects = list, !.projectsPc = "done"]
  IN renderProjects([w1 EXCEPT !.filteredProjects = Slice(w1.projects)])

\* (p.tags || []).includes(tag)
HasTag(p, tag) == \E i \in 1..Len(p.tags) : p.tags[i] = tag

toggleFilter(w, tag) ==
  LET w1 == IF w.currentFilter = tag
            THEN [w EXCEPT !.currentFilter = "all", !.filteredProjects = Slice(w.projects)]
            ELSE [w EXCEPT !.currentFilter = tag,
                           !.filteredProjects = SelectSeq(w.projects, LAMBDA p : HasTag(p, tag))]
  IN renderProjects(w1)

(***************************************************************************)
(* Project search.  Texts that are searched are sequences of characters.   *)
(***************************************************************************)
\* the characters of the strings the projects carry
Chars(str) ==
  CASE str = "Demo Shop" -> <<"D", "e", "m", "o", " ", "S", "h", "o", "p">>
    [] str = "Demo e-commerce site." ->
         <<"D", "e", "m", "o", " ", "e", "-", "c", "o", "m", "m", "e", "r", "c", "e",
           " ", "s", "i", "t", "e", ".">>
    [] str = "React" -> <<"R", "e", "a", "c", "t">>
    [] str = "Node.js" -> <<"N", "o", "d", "e", ".", "j", "s">>
    [] str = "a" -> <<"a">>
    [] str = "b" -> <<"b">>
    [] str = "c" -> <<"c">>
    [] OTHER -> <<>>

UpperCase ==
  <<"A", "B", "C", "D", "E", "F", "G", "H", "I", "J", "K", "L", "M",
    "N", "O", "P", "Q", "R", "S", "T", "U", "V", "W", "X", "Y", "Z">>
LowerCase ==
  <<"a", "b", "c", "d", "e", "f", "g", "h", "i", "j", "k", "l", "m",
    "n", "o", "p", "q", "r", "s", "t", "u", "v", "w", "x", "y", "z">>

\* String.prototype.toLowerCase
toLowerCase(t) ==
  [i \in 1..Len(t) |->
     IF \E k \in 1..Len(UpperCase) : UpperCase[k] = t[i]
     THEN LowerCase[CHOOSE k \in 1..Len(UpperCase) : UpperCase[k] = t[i]]
     ELSE t[i]]

WhiteSpace == {" ", "\t", "\n"}

\* String.prototype.trim
trimChars(t) ==
  LET inked == {i \in 1..Len(t) : t[i] \notin WhiteSpace}
  IN IF inked = {} THEN <<>>
     ELSE SubSeq(t, CHOOSE i \in inked : \A j \in inked : i <= j,
                    CHOOSE i \in inked : \A j \in inked : j <= i)

\* String.prototype.includes
includes(t, q) == \E i \in 1..(Len(t) - Len(q) + 1) : SubSeq(t, i, i + Len(q) - 1) = q

\* p.description || "": of the projects of the model only the demo project
\* has a description
descriptionOf(p) == IF p.id = 101 THEN "Demo e-commerce site." ELSE ""

\* the predicate of the callback's pool.filter
matchesQuery(p, q) ==
  \/ includes(toLowerCase(Chars(p.title)), q)
  \/ includes(toLowerCase(Chars(descriptionOf(p))), q)
  \/ \E i \in 1..Len(p.tags) : includes(toLowerCase(Chars(p.tags[i])), q)

\* an input event on #search-projects with the new value v: the debounced
\* listener clears its timer and starts it again
searchInput(w, v) == [w EXCEPT !.searchValue = v, !.searchTimer = TRUE]

\* the debounced callback of initProjectSearch, 180 ms after the last input
searchCallback(w) ==
  LET q == trimChars(toLowerCase(w.searchValue))
      pool == IF w.currentFilter = "all" THEN w.projects
              ELSE SelectSeq(w.projects, LAMBDA p : HasTag(p, w.currentFilter))
      w1 == [w EXCEPT !.filteredProjects = SelectSeq(pool, LAMBDA p : matchesQuery(p, q)),
                      !.searchTimer = FALSE, !.lastQuery = q]
  IN renderProjects(w1)

(***************************************************************************)
(* Contact form.  The page's markup is not part of the sources: the form   *)
(* has three required fields, each with an .error-message element beside   *)
(* it, the hidden honeypot input, which has none, and a submit button with *)
(* a text label.                                                           *)
(***************************************************************************)
\* form.querySelectorAll("input, textarea"), in document order
Fields == <<"name", "email", "message", "_gotcha">>
FieldNames == {Fields[i] : i \in 1..Len(Fields)}
\* input.hasAttribute("required")
Required(f) == f \in {"name", "email", "message"}
\* input.type === "email"
IsEmail(f) == f = "email"
\* input.parentElement.querySelector(".error-message")
HasErrorEl(f) == f # "_gotcha"

\* /^[^\s@]+@[^\s@]+\.[^\s@]+$/.test(t)
emailRe(t) ==
  \E i \in 1..Len(t), j \in 1..Len(t) :
    /\ t[i] = "@" /\ t[j] = "."
    /\ 1 < i /\ i + 1 < j /\ j < Len(t)
    /\ \A k \in 1..Len(t) : t[k] \notin WhiteSpace /\ (k # i => t[k] # "@")

\* the message validateField finds for a field, "" when it finds none
fieldMessage(w, f) ==
  IF Required(f) /\ trimChars(w.form.values[f]) = <<>>
  THEN (IF w.script = "current" THEN "This field is required." ELSE "This field is required")
  ELSE IF IsEmail(f) /\ w.form.values[f] # <<>> /\ ~emailRe(w.form.values[f])
  THEN (IF w.script = "current" THEN "Please enter a valid email." ELSE "Enter a valid email")
  ELSE ""

\* the value validateField returns
validateFieldResult(w, f) ==
  IF w.script = "current" /\ ~HasErrorEl(f) THEN TRUE ELSE fieldMessage(w, f) = ""

\* validateField(input): the error text it leaves
validateField(w, f) ==
  IF HasErrorEl(f) THEN [w EXCEPT !.form.errors[f] = fieldMessage(w, f)] ELSE w

\* the input listener of a field: a new value, the error text cleared
fieldInput(w, f, v) ==
  LET w1 == [w EXCEPT !.form.values[f] = v]
  IN IF HasErrorEl(f) THEN [w1 EXCEPT !.form.errors[f] = ""] ELSE w1

\* form.reset(): every field back to its default value
formReset(w) == [w EXCEPT !.form.values = [f \in FieldNames |-> <<>>]]

Idle == [at |-> "idle", ok |-> FALSE]

formAtLoad == [values |-> [f \in FieldNames |-> <<>>], errors |-> [f \in FieldNames |-> ""]]

submitBtnAtLoad(label) ==
  [exists |-> TRUE, disabled |-> FALSE, textContent |-> label, origText |-> Null]

\* the submit listener up to its first await
submitHandler(w) ==
  LET w1 == [w EXCEPT !.form.errors =
               [f \in FieldNames |-> validateField(w, f).form.errors[f]]]
      ok == \A i \in 1..Len(Fields) : validateFieldResult(w, Fields[i])
      w2 == IF w1.submitBtn.exists
            THEN [w1 EXCEPT !.submitBtn.disabled = TRUE,
                            !.submitBtn.origText = w1.submitBtn.textContent,
                            !.submitBtn.textContent = "Sending..."]
            ELSE w1
  IN IF ~ok THEN w1
     ELSE IF w1.form.values["_gotcha"] # <<>> THEN w1
     ELSE [w2 EXCEPT !.contactPc = [at |-> "fetch", ok |-> FALSE]]

\* the finally block of the submit listener
submitFinallyKeepText(w) ==
  LET w1 == IF w.submitBtn.exists
            THEN [w EXCEPT !.submitBtn.disabled = FALSE,
                           !.submitBtn.origText =
                              IF w.script = "old" THEN Null ELSE w.submitBtn.origText]
            ELSE w
  IN [w1 EXCEPT !.contactPc = Idle]

submitFinally(w) ==
  LET w1 == IF w.submitBtn.exists
            THEN [w EXCEPT !.submitBtn.disabled = FALSE,
                           !.submitBtn.textContent =
                              IF w.submitBtn.origText \in {Null, ""} THEN "Send Message"
                              ELSE w.submitBtn.origText,
                           !.submitBtn.origText =
                              IF w.script = "old" THEN Null ELSE w.submitBtn.origText]
            ELSE w
  IN [w1 EXCEPT !.contactPc = Idle]

\* await fetch(...) settles: it rejects (the catch block, then finally), or
\* it resolves with a response whose status is OK or not
contactFetchSettles(w, status) ==
  IF status = "neterr" THEN submitFinally(w)
  ELSE [w EXCEPT !.contactPc = [at |-> "json", ok |-> status = "ok"]]

\* await res.json() settles: the body parses or the promise rejects
contactJsonSettles(w, parses) ==
  IF parses /\ w.contactPc.ok THEN submitFinally(formReset(w))
  ELSE submitFinally(w)

(***************************************************************************)
(* Project modal                                                           *)
(***************************************************************************)
\* openProjectModal(project); n = the links the project's markup holds
\* (project.github, project.demo)
openProjectModal(w, n) ==
  IF ModalId["project"] \notin w.present \/ BodyId["project"] \notin w.present THEN w
  ELSE
    LET w1 == [w EXCEPT !.lastFocused = w.focus,
                        !.memo = [s |-> "project", e |-> w.focus]]
        w2 == setInnerHTML(w1, "project", n)
        w3 == [w2 EXCEPT !.aria["project"] = "false",
                         !.display["project"] = "flex",
                         !.timers["project"] = @ + 1,
                         !.overflow = "hidden"]
        w4 == IF CloseSel["project"] \in w.present
              THEN focusEl(w3, CloseEl["project"]) ELSE w3
    IN trapFocus(w4, "project")

\* closeProjectModal that flips style.display instead of setting "none"
closeProjectModalToggle(w) ==
  IF ModalId["project"] \notin w.present THEN w
  ELSE
    LET w1 == [w EXCEPT !.openAttr["project"] = FALSE,
                        !.aria["project"] = "true",
                        !.display["project"] = IF @ = "none" THEN "flex" ELSE "none",
                        !.overflow = ""]
    IN fixup(IF w1.lastFocused # Null THEN focusEl(w1, w1.lastFocused) ELSE w1)

closeProjectModal(w) ==
  IF ModalId["project"] \notin w.present THEN w
  ELSE
    LET w1 == [w EXCEPT !.openAttr["project"] = FALSE,
                        !.aria["project"] = "true",
                        !.display["project"] = "none",
                        !.overflow = ""]
    IN fixup(IF w1.lastFocused # Null THEN focusEl(w1, w1.lastFocused) ELSE w1)

(***************************************************************************)
(* Blogs and admin                                                         *)
(***************************************************************************)
isAdmin(w) == w.adminAuth

\* String.prototype.trim on the strings the model uses: " " is the one made
\* of white space only
Trim(x) == IF x = " " THEN "" ELSE x

\* state.blogs.find((x) => x.id === id)
HasBlog(w, id) == \E i \in 1..Len(w.blogs) : w.blogs[i].id = id

saveBlogs(w) == [w EXCEPT !.savedBlogs = <<w.blogs>>]

\* renderBlogs: the container is emptied and a card is created per blog, so
\* the cards that were in the document are gone
renderBlogs(w) == detach(w, {"bcard"})

updateAdminUI(w) == renderBlogs(w)

setAdminAuthenticated(w, val) == updateAdminUI([w EXCEPT !.adminAuth = val])

(***************************************************************************)
(* Blog modal                                                              *)
(***************************************************************************)
openBlogModal(w, id) ==
  IF ModalId["blog"] \notin w.present \/ BodyId["blog"] \notin w.present THEN w
  ELSE IF ~HasBlog(w, id) THEN w
  ELSE
    LET w1 == [w EXCEPT !.currentBlogId = id,
                        !.lastFocused = w.focus,
                        !.memo = [s |-> "blog", e |-> w.focus]]
        \* the like button, and Edit and Delete for the admin
        w2 == setInnerHTML(w1, "blog", IF isAdmin(w1) THEN 3 ELSE 1)
        w3 == [w2 EXCEPT !.aria["blog"] = "false",
                         !.display["blog"] = "flex",
                         !.timers["blog"] = @ + 1,
                         !.overflow = "hidden"]
        w4 == IF CloseSel["blog"] \in w.present
              THEN focusEl(w3, CloseEl["blog"]) ELSE w3
    IN trapFocus(w4, "blog")

closeBlogModal(w) ==
  IF ModalId["blog"] \notin w.present THEN w
  ELSE
    LET w1 == [w EXCEPT !.currentBlogId = NullId,
                        !.openAttr["blog"] = FALSE,
                        !.aria["blog"] = "true",
                        !.display["blog"] = "none",
                        !.overflow = ""]
    IN fixup(IF w1.lastFocused # Null THEN focusEl(w1, w1.lastFocused) ELSE w1)

\* the inputs of the admin panel that addBlog / addPost read
InputIds == {"blog-title", "blog-content", "post-content"}

\* state.blogs.unshift(newBlog)
Unshift(q, x) == <<x>> \o q

\* addBlog() when Date.now() is `now` and the inputs hold titleVal, contentVal
addBlog(w, now, titleVal, contentVal) ==
  IF ~isAdmin(w) THEN w
  ELSE IF "blog-title" \notin w.present \/ "blog-content" \notin w.present THEN w
  ELSE IF Trim(titleVal) = "" THEN w
  ELSE IF Trim(contentVal) = "" THEN w
  ELSE renderBlogs(saveBlogs(
         [w EXCEPT !.blogs = Unshift(@, [id |-> now, title |-> Trim(titleVal),
                                         content |-> Trim(contentVal),
                                         likes |-> 0, liked |-> FALSE])]))

\* index of the blog that find((x) => x.id === id) returns
FindId(q, id) == CHOOSE i \in 1..Len(q) : q[i].id = id /\ \A j \in 1..(i - 1) : q[j].id # id

\* likeBlog that counts every click as one more like
likeBlogCountUp(w, id) ==
  IF ~HasBlog(w, id) THEN w
  ELSE
    LET i == FindId(w.blogs, id)
        w1 == [w EXCEPT !.blogs[i].liked = ~@]
        w2 == [w1 EXCEPT !.blogs[i].likes = @ + 1]
    IN renderBlogs(saveBlogs(w2))

\* likeBlog(id); the like button of the open modal is relabelled in place
likeBlog(w, id) ==
  IF ~HasBlog(w, id) THEN w
  ELSE
    LET i == FindId(w.blogs, id)
        w1 == [w EXCEPT !.blogs[i].liked = ~@]
        w2 == [w1 EXCEPT !.blogs[i].likes = @ + (IF w1.blogs[i].liked THEN 1 ELSE -1)]
    IN renderBlogs(saveBlogs(w2))

\* editBlog without the isAdmin() test
editBlogNoGuard(w, id, newTitle, newContent) ==
  IF ~HasBlog(w, id) THEN w
  ELSE IF newTitle = Null THEN w
  ELSE IF newContent = Null THEN w
  ELSE
    LET w1 == [w EXCEPT !.blogs =
                 [i \in 1..Len(w.blogs) |->
                    IF w.blogs[i].id # id THEN w.blogs[i]
                    ELSE [w.blogs[i] EXCEPT
                            !.title = IF Trim(newTitle) # "" THEN Trim(newTitle) ELSE @,
                            !.content = IF Trim(newContent) # "" THEN Trim(newContent) ELSE @]]]
        w2 == renderBlogs(saveBlogs(w1))
    IN IF w2.currentBlogId = id THEN openBlogModal(w2, id) ELSE w2

\* editBlog(id) with the answers given to its two prompts (Null: cancelled)
editBlog(w, id, newTitle, newContent) ==
  IF ~isAdmin(w) THEN w
  ELSE IF ~HasBlog(w, id) THEN w
  ELSE IF newTitle = Null THEN w
  ELSE IF newContent = Null THEN w
  ELSE
    LET w1 == [w EXCEPT !.blogs =
                 [i \in 1..Len(w.blogs) |->
                    IF w.blogs[i].id # id THEN w.blogs[i]
                    ELSE [w.blogs[i] EXCEPT
                            !.title = IF Trim(newTitle) # "" THEN Trim(newTitle) ELSE @,
                            !.content = IF Trim(newContent) # "" THEN Trim(newContent) ELSE @]]]
        w2 == renderBlogs(saveBlogs(w1))
    IN IF w2.currentBlogId = id THEN openBlogModal(w2, id) ELSE w2

\* deleteBlog that leaves the modal of the deleted blog open
deleteBlogNoClose(w, id, confirmed) ==
  IF ~isAdmin(w) THEN w
  ELSE IF ~confirmed THEN w
  ELSE renderBlogs(saveBlogs([w EXCEPT !.blogs = SelectSeq(@, LAMBDA x : x.id # id)]))

\* deleteBlog(id) with the answer given to confirm()
deleteBlog(w, id, confirmed) ==
  IF ~isAdmin(w) THEN w
  ELSE IF ~confirmed THEN w
  ELSE
    LET w1 == [w EXCEPT !.blogs = SelectSeq(@, LAMBDA x : x.id # id)]
        w2 == renderBlogs(saveBlogs(w1))
    IN IF w2.currentBlogId = id THEN closeBlogModal(w2) ELSE w2

(***************************************************************************)
(* Posts (src/script.js, the older revision: posts instead of blogs)       *)
(***************************************************************************)
seedPosts ==
  << [id |-> 1, content |-> "c1", likes |-> 5, liked |-> FALSE],
     [id |-> 2, content |-> "c2", likes |-> 12, liked |-> FALSE] >>

HasPost(w, id) == \E i \in 1..Len(w.posts) : w.posts[i].id = id

savePosts(w) == [w EXCEPT !.savedPosts = <<w.posts>>]

\* renderPosts: the post cards are rebuilt; they hold none of the elements
\* whose focus the model follows
renderPosts(w) == detach(w, {})

addPost(w, now, val) ==
  IF ~isAdmin(w) THEN w
  ELSE IF "post-content" \notin w.present THEN w
  ELSE IF Trim(val) = "" THEN w
  ELSE renderPosts(savePosts(
         [w EXCEPT !.posts = Unshift(@, [id |-> now, content |-> Trim(val),
                                         likes |-> 0, liked |-> FALSE])]))

likePost(w, id) ==
  IF ~HasPost(w, id) THEN w
  ELSE
    LET i == FindId(w.posts, id)
        w1 == [w EXCEPT !.posts[i].liked = ~@]
        w2 == [w1 EXCEPT !.posts[i].likes = @ + (IF w1.posts[i].liked THEN 1 ELSE -1)]
    IN renderPosts(savePosts(w2))

\* editPost(id) with the answer given to its prompt (Null: cancelled)
editPost(w, id, val) ==
  IF ~isAdmin(w) THEN w
  ELSE IF ~HasPost(w, id) THEN w
  ELSE IF val # Null
    THEN renderPosts(savePosts([w EXCEPT !.posts[FindId(w.posts, id)].content = val]))
  ELSE w

deletePost(w, id, confirmed) ==
  IF ~isAdmin(w) THEN w
  ELSE IF confirmed
    THEN renderPosts(savePosts([w EXCEPT !.posts = SelectSeq(@, LAMBDA x : x.id # id)]))
  ELSE w

(***************************************************************************)
(* Document-level listeners                                                *)
(***************************************************************************)
\* an Escape listener that knows the project modal only
escapeKeyProjectOnly(w) ==
  IF ModalId["project"] \in w.present /\ w.aria["project"] = "false"
  THEN closeProjectModal(w) ELSE w

\* document keydown listener, e.key === "Escape"
escapeKey(w) ==
  LET w1 == IF ModalId["project"] \in w.present /\ w.aria["project"] = "false"
            THEN closeProjectModal(w) ELSE w
  IN IF ModalId["blog"] \in w1.present /\ w1.aria["blog"] = "false"
     THEN closeBlogModal(w1) ELSE w1

\* document click listeners that close whatever the target of the click is
documentClickAnyTarget(w, target) ==
  LET w1 == IF ModalId["project"] \notin w.present THEN w ELSE closeProjectModal(w)
  IN IF ModalId["blog"] \in w1.present THEN closeBlogModal(w1) ELSE w1

\* the two document click listeners, for a click whose target is `target`
documentClick(w, target) ==
  LET w1 == IF ModalId["project"] \notin w.present THEN w
            ELSE IF target = ModalId["project"] THEN closeProjectModal(w) ELSE w
  IN IF ModalId["blog"] \in w1.present /\ target = ModalId["blog"]
     THEN closeBlogModal(w1) ELSE w1

\* click listeners added to the close buttons found at DOMContentLoaded
closeButtonClick(w, s) ==
  IF CloseSel[s] \notin w.present THEN w
  ELSE IF s = "project" THEN closeProjectModal(w) ELSE closeBlogModal(w)

\* the callback of setTimeout(() => modal.setAttribute("open", ""), 20)
timerCallback(w, s) == [w EXCEPT !.openAttr[s] = TRUE, !.timers[s] = @ - 1]

\* an admin-toggle click listener that accepts any non-empty attempt
adminToggleClickAnyAttempt(w, ok, p1, p2, attempt) ==
  IF isAdmin(w) THEN (IF ok THEN setAdminAuthenticated(w, FALSE) ELSE w)
  ELSE IF w.adminPass \in {Null, ""} THEN
    IF p1 \in {Null, ""} THEN w
    ELSE IF p1 # p2 THEN w
    ELSE updateAdminUI([w EXCEPT !.adminPass = p1, !.adminAuth = TRUE])
  ELSE IF attempt \in {Null, ""} THEN w
  ELSE setAdminAuthenticated(w, TRUE)

\* admin-toggle click listener with the answers to confirm() and the prompts
adminToggleClick(w, ok, p1, p2, attempt) ==
  IF isAdmin(w) THEN (IF ok THEN setAdminAuthenticated(w, FALSE) ELSE w)
  ELSE IF w.adminPass \in {Null, ""} THEN
    IF p1 \in {Null, ""} THEN w
    ELSE IF p1 # p2 THEN w
    ELSE updateAdminUI([w EXCEPT !.adminPass = p1, !.adminAuth = TRUE])
  ELSE IF attempt \in {Null, ""} THEN w
  ELSE IF attempt = w.adminPass THEN setAdminAuthenticated(w, TRUE)
  ELSE w

(***************************************************************************)
(* Initial state: the page as loaded, before any interaction               *)
(***************************************************************************)
\* seedBlogs(): two posts, ids Date.now() - 3000 and Date.now() - 2000
seedBlogs ==
  << [id |-> 1, title |-> "t1", content |-> "c1", likes |-> 5, liked |-> FALSE],
     [id |-> 2, title |-> "t2", content |-> "c2", likes |-> 12, liked |-> FALSE] >>

\* ids passed to the blog operations: a seeded one and one that no blog has
BlogIds == {1, 3}

NoRun == [s |-> "none", k |-> 0]
\* lastOp tells the calls of open and close apart from every other handler
Op(name, s, wasOpen) ==
  IF name \in {"init", "open", "close"} THEN [op |-> name, s |-> s, wasOpen |-> wasOpen]
  ELSE [op |-> "other", s |-> "none", wasOpen |-> FALSE]

\* the state of the features other than the modals and the blogs, where
\* the page runs the current script and has loaded the demo projects
InitOther ==
  /\ script = "current"
  /\ posts = <<>>
  /\ savedPosts = <<>>
  /\ projects = demoProjects
  /\ filteredProjects = demoProjects
  /\ currentFilter = "all"
  /\ projectsPc = "done"
  /\ theme = "light"
  /\ savedTheme = Null
  /\ searchValue = <<>>
  /\ searchTimer = FALSE
  /\ lastQuery = <<>>
  /\ form = formAtLoad
  /\ submitBtn = submitBtnAtLoad("Send Message")
  /\ contactPc = Idle

Init ==
  /\ present = Handles
  /\ aria = [s \in Surfaces |-> "true"]
  /\ display = [s \in Surfaces |-> "none"]
  /\ openAttr = [s \in Surfaces |-> FALSE]
  /\ timers = [s \in Surfaces |-> 0]
  /\ overflow = ""
  /\ lastFocused = Null
  /\ focus = Body
  /\ currentBlogId = NullId
  /\ blogs = seedBlogs
  /\ adminAuth = FALSE
  /\ adminPass = Null
  /\ content = [s \in Surfaces |-> 0]
  /\ traps = [s \in Surfaces |-> <<>>]
  /\ savedBlogs = <<>>
  /\ InitOther
  /\ memo = [s |-> "none", e |-> Null]
  /\ tabRun = NoRun
  /\ lastOp = Op("init", "none", FALSE)

(***************************************************************************)
(* Steps                                                                   *)
(***************************************************************************)
\* the program moves to state w; op names the handler that ran
Step(w, op, run) ==
  /\ present' = w.present
  /\ aria' = w.aria
  /\ display' = w.display
  /\ openAttr' = w.openAttr
  /\ timers' = w.timers
  /\ overflow' = w.overflow
  /\ lastFocused' = w.lastFocused
  /\ focus' = w.focus
  /\ currentBlogId' = w.currentBlogId
  /\ blogs' = w.blogs
  /\ adminAuth' = w.adminAuth
  /\ adminPass' = w.adminPass
  /\ content' = w.content
  /\ traps' = w.traps
  /\ savedBlogs' = w.savedBlogs
  /\ script' = w.script
  /\ posts' = w.posts
  /\ savedPosts' = w.savedPosts
  /\ projects' = w.projects
  /\ filteredProjects' = w.filteredProjects
  /\ currentFilter' = w.currentFilter
  /\ projectsPc' = w.projectsPc
  /\ theme' = w.theme
  /\ savedTheme' = w.savedTheme
  /\ searchValue' = w.searchValue
  /\ searchTimer' = w.searchTimer
  /\ lastQuery' = w.lastQuery
  /\ form' = w.form
  /\ submitBtn' = w.submitBtn
  /\ contactPc' = w.contactPc
  /\ memo' = w.memo
  /\ tabRun' = run
  /\ lastOp' = op

IsOpen(s) == aria[s] = "false"

\* an open of surface s stays within the model's bounds
CanOpen(s) == Len(traps[s]) < MaxTraps /\ timers[s] < MaxTimers

\* links in a project's markup: neither of github and demo, or both
ProjectLinks == {0, Len(ContentEl["project"])}

OpenProjectModal ==
  /\ CanOpen("project")
  /\ \E n \in ProjectLinks :
       Step(openProjectModal(Cur, n), Op("open", "project", IsOpen("project")), NoRun)

OpenBlogModal ==
  /\ CanOpen("blog")
  /\ \E id \in BlogIds :
       Step(openBlogModal(Cur, id), Op("open", "blog", IsOpen("blog")), NoRun)

CloseProjectModal ==
  Step(closeProjectModal(Cur), Op("close", "project", IsOpen("project")), NoRun)

CloseBlogModal ==
  Step(closeBlogModal(Cur), Op("close", "blog", IsOpen("blog")), NoRun)

EscapeKey == Step(escapeKey(Cur), Op("escape", "none", FALSE), NoRun)

\* a click lands on a displayed backdrop, or on something that is no backdrop
BackdropClick ==
  \E s \in Surfaces :
    /\ ModalId[s] \in present /\ display[s] = "flex"
    /\ Step(documentClick(Cur, ModalId[s]), Op("backdrop", s, IsOpen(s)), NoRun)

OtherClick == Step(documentClick(Cur, "elsewhere"), Op("click", "none", FALSE), NoRun)

CloseButtonClick ==
  \E s \in Surfaces :
    /\ Rendered(Cur, CloseEl[s])
    /\ Step(closeButtonClick(Cur, s), Op("closebtn", s, IsOpen(s)), NoRun)

\* the run of plain Tab presses that began on the first focusable of an open
\* container goes on, or a new one begins
NextRun(shift) ==
  LET s == SurfaceOf(focus) IN
  IF shift THEN NoRun
  ELSE IF tabRun.k >= 1 /\ tabRun.k < Len(Focusable(Cur, tabRun.s))
    THEN [tabRun EXCEPT !.k = @ + 1]
  ELSE IF s \in Surfaces /\ IsOpen(s) /\ focus = Focusable(Cur, s)[1]
    THEN [s |-> s, k |-> 1]
  ELSE NoRun

TabKey ==
  \E shift \in BOOLEAN :
    Step(tabKey(Cur, shift), Op(IF shift THEN "shifttab" ELSE "tab", "none", FALSE),
         NextRun(shift))

\* the user focuses an element with the pointer: one inside a displayed
\* modal, or one of the page when no modal covers it
MouseFocus ==
  \E e \in PageEls \cup {CloseEl[s] : s \in Surfaces}
             \cup UNION {SeqToSet(ContentEl[s]) : s \in Surfaces} :
    /\ Rendered(Cur, e)
    /\ SurfaceOf(e) = "page" => \A s \in Surfaces : display[s] = "none"
    /\ e # focus
    /\ Step([Cur EXCEPT !.focus = e], Op("focus", "none", FALSE), NoRun)

\* focus leaves the document (the user clicks the browser's own controls)
Blur ==
  /\ focus # Body
  /\ Step([Cur EXCEPT !.focus = Body], Op("blur", "none", FALSE), NoRun)

TimerFire ==
  \E s \in Surfaces :
    /\ timers[s] > 0
    /\ Step(timerCallback(Cur, s), Op("timer", s, IsOpen(s)), tabRun)

\* answers to the prompts of editBlog
EditAnswers == {Null, ""}

EditBlog ==
  /\ CanOpen("blog")
  /\ \E id \in BlogIds, newTitle \in EditAnswers, newContent \in EditAnswers :
       Step(editBlog(Cur, id, newTitle, newContent),
            Op("edit", "blog", IsOpen("blog") /\ currentBlogId = id), NoRun)

DeleteBlog ==
  \E id \in BlogIds, confirmed \in BOOLEAN :
    Step(deleteBlog(Cur, id, confirmed), Op("delete", "blog", IsOpen("blog")), NoRun)

\* answers to the prompts of the admin toggle
PassAnswers == {Null, "pw"}

\* (an answer the branch taken never reads is left out)
AdminToggleClick ==
  \/ /\ isAdmin(Cur)
     /\ \E ok \in BOOLEAN :
          Step(adminToggleClick(Cur, ok, Null, Null, Null), Op("admin", "none", FALSE), NoRun)
  \/ /\ ~isAdmin(Cur) /\ adminPass \in {Null, ""}
     /\ \E p1 \in PassAnswers, p2 \in PassAnswers :
          Step(adminToggleClick(Cur, FALSE, p1, p2, Null), Op("admin", "none", FALSE), NoRun)
  \/ /\ ~isAdmin(Cur) /\ adminPass \notin {Null, ""}
     /\ \E attempt \in PassAnswers :
          Step(adminToggleClick(Cur, FALSE, Null, Null, attempt), Op("admin", "none", FALSE), NoRun)

\* no 20 ms timer is pending
Quiet == \A s \in Surfaces : timers[s] = 0

\* the 20 ms timer of an open fires before the next event is handled
Next ==
  \/ TimerFire
  \/ Quiet /\ OpenProjectModal
  \/ Quiet /\ OpenBlogModal
  \/ Quiet /\ CloseProjectModal
  \/ Quiet /\ CloseBlogModal
  \/ Quiet /\ EscapeKey
  \/ Quiet /\ BackdropClick
  \/ Quiet /\ OtherClick
  \/ Quiet /\ CloseButtonClick
  \/ Quiet /\ TabKey
  \/ Quiet /\ MouseFocus
  \/ Quiet /\ Blur
  \/ Quiet /\ EditBlog
  \/ Quiet /\ DeleteBlog
  \/ Quiet /\ AdminToggleClick

Spec == Init /\ [][Next]_vars

(***************************************************************************)
(* The modals on a page that lacks some of the elements the script looks   *)
(* up (getElementById / querySelector return null)                         *)
(***************************************************************************)
\* what a page can hold of one surface: everything, no close button, no
\* body, or no modal at all (the close button is looked up inside the modal)
SurfaceConfigs(s) ==
  { {ModalId[s], BodyId[s], CloseSel[s]}, {ModalId[s], BodyId[s]},
    {ModalId[s], CloseSel[s]}, {} }

DomConfigs ==
  {p \cup b : p \in SurfaceConfigs("project"), b \in SurfaceConfigs("blog")}

InitDom ==
  /\ present \in DomConfigs
  /\ aria = [s \in Surfaces |-> "true"]
  /\ display = [s \in Surfaces |-> "none"]
  /\ openAttr = [s \in Surfaces |-> FALSE]
  /\ timers = [s \in Surfaces |-> 0]
  /\ overflow = ""
  /\ lastFocused = Null
  /\ focus = Body
  /\ currentBlogId = NullId
  /\ blogs = seedBlogs
  /\ adminAuth = FALSE
  /\ adminPass = Null
  /\ content = [s \in Surfaces |-> 0]
  /\ traps = [s \in Surfaces |-> <<>>]
  /\ savedBlogs = <<>>
  /\ InitOther
  /\ memo = [s |-> "none", e |-> Null]
  /\ tabRun = NoRun
  /\ lastOp = Op("init", "none", FALSE)

NextDom ==
  \/ TimerFire
  \/ Quiet /\ OpenProjectModal
  \/ Quiet /\ OpenBlogModal
  \/ Quiet /\ CloseProjectModal
  \/ Quiet /\ CloseBlogModal
  \/ Quiet /\ EscapeKey
  \/ Quiet /\ BackdropClick
  \/ Quiet /\ OtherClick
  \/ Quiet /\ CloseButtonClick
  \/ Quiet /\ TabKey
  \/ Quiet /\ MouseFocus

SpecDom == InitDom /\ [][NextDom]_vars

(***************************************************************************)
(* Blogs (current script) and posts (older script): the admin's create,    *)
(* edit and delete, the visitors' like                                     *)
(***************************************************************************)
\* the page runs one of the two revisions of the script
Scripts == {"current", "old"}

InitBlog ==
  /\ present = Handles \cup InputIds
  /\ aria = [s \in Surfaces |-> "true"]
  /\ display = [s \in Surfaces |-> "none"]
  /\ openAttr = [s \in Surfaces |-> FALSE]
  /\ timers = [s \in Surfaces |-> 0]
  /\ overflow = ""
  /\ lastFocused = Null
  /\ focus = Body
  /\ currentBlogId = NullId
  /\ script \in Scripts
  /\ blogs = IF script = "current" THEN seedBlogs ELSE <<>>
  /\ posts = IF script = "old" THEN seedPosts ELSE <<>>
  /\ adminAuth = FALSE
  /\ adminPass = Null
  /\ content = [s \in Surfaces |-> 0]
  /\ traps = [s \in Surfaces |-> <<>>]
  /\ savedBlogs = <<>>
  /\ savedPosts = <<>>
  /\ projects = demoProjects
  /\ filteredProjects = demoProjects
  /\ currentFilter = "all"
  /\ projectsPc = "done"
  /\ theme = "light"
  /\ savedTheme = Null
  /\ searchValue = <<>>
  /\ searchTimer = FALSE
  /\ lastQuery = <<>>
  /\ form = formAtLoad
  /\ submitBtn = submitBtnAtLoad("Send Message")
  /\ contactPc = Idle
  /\ memo = [s |-> "none", e |-> Null]
  /\ tabRun = NoRun
  /\ lastOp = Op("init", "none", FALSE)

\* Date.now() at an add: later than the ids of the seeded entries
NewIds == {3}
\* values of the inputs of the admin panel
TextInputs == {"", " ", "e"}
\* answers to the prompts of editBlog and of editPost
TextAnswers == {Null, " ", "e"}
PostAnswers == {Null, "", "e"}

AddBlog ==
  /\ script = "current"
  /\ \E now \in NewIds, titleVal \in TextInputs, contentVal \in TextInputs :
       /\ ~HasBlog(Cur, now)
       /\ Step(addBlog(Cur, now, titleVal, contentVal), Op("add", "blog", FALSE), NoRun)

LikeBlog ==
  /\ script = "current"
  /\ \E id \in BlogIds : Step(likeBlog(Cur, id), Op("like", "blog", FALSE), NoRun)

EditBlogText ==
  /\ script = "current"
  /\ CanOpen("blog")
  /\ \E id \in BlogIds, newTitle \in TextAnswers, newContent \in TextAnswers :
       Step(editBlog(Cur, id, newTitle, newContent), Op("edit", "blog", FALSE), NoRun)

AddPost ==
  /\ script = "old"
  /\ \E now \in NewIds, val \in TextInputs :
       /\ ~HasPost(Cur, now)
       /\ Step(addPost(Cur, now, val), Op("add", "post", FALSE), NoRun)

LikePost ==
  /\ script = "old"
  /\ \E id \in BlogIds : Step(likePost(Cur, id), Op("like", "post", FALSE), NoRun)

EditPost ==
  /\ script = "old"
  /\ \E id \in BlogIds, val \in PostAnswers :
       Step(editPost(Cur, id, val), Op("edit", "post", FALSE), NoRun)

DeletePost ==
  /\ script = "old"
  /\ \E id \in BlogIds, confirmed \in BOOLEAN :
       Step(deletePost(Cur, id, confirmed), Op("delete", "post", FALSE), NoRun)

NextBlog ==
  \/ TimerFire
  \/ Quiet /\ script = "current" /\ OpenBlogModal
  \/ Quiet /\ script = "current" /\ CloseBlogModal
  \/ Quiet /\ AddBlog
  \/ Quiet /\ LikeBlog
  \/ Quiet /\ EditBlogText
  \/ Quiet /\ script = "current" /\ DeleteBlog
  \/ Quiet /\ AdminToggleClick
  \/ AddPost
  \/ LikePost
  \/ EditPost
  \/ DeletePost

SpecBlog == InitBlog /\ [][NextBlog]_vars

(***************************************************************************)
(* Admin login: the prompts answered with nothing, with an empty string    *)
(* and with either of two passwords                                        *)
(***************************************************************************)
AdminAnswers == {Null, "", "pw", "pw2"}

AdminToggleAny ==
  \/ /\ isAdmin(Cur)
     /\ \E ok \in BOOLEAN :
          Step(adminToggleClick(Cur, ok, Null, Null, Null), Op("admin", "none", FALSE), NoRun)
  \/ /\ ~isAdmin(Cur) /\ adminPass \in {Null, ""}
     /\ \E p1 \in AdminAnswers, p2 \in AdminAnswers :
          Step(adminToggleClick(Cur, FALSE, p1, p2, Null), Op("admin", "none", FALSE), NoRun)
  \/ /\ ~isAdmin(Cur) /\ adminPass \notin {Null, ""}
     /\ \E attempt \in AdminAnswers :
          Step(adminToggleClick(Cur, FALSE, Null, Null, attempt), Op("admin", "none", FALSE), NoRun)

NextAdmin ==
  \/ TimerFire
  \/ Quiet /\ AdminToggleAny
  \/ Quiet /\ script = "current" /\ OpenBlogModal
  \/ Quiet /\ script = "current" /\ CloseBlogModal
  \/ Quiet /\ AddBlog
  \/ Quiet /\ LikeBlog
  \/ Quiet /\ script = "current" /\ DeleteBlog
  \/ AddPost
  \/ LikePost
  \/ DeletePost

SpecAdmin == InitBlog /\ [][NextAdmin]_vars

(***************************************************************************)
(* Loading the projects: the page from DOMContentLoaded on, while          *)
(* fetch("projects.json") is pending, and the project grid afterwards      *)
(***************************************************************************)
\* longest array a projects.json of the model holds
MaxProjects == 2

\* projects a projects.json can hold: with and without links, with one
\* tag, two tags and no tags property
Templates ==
  { [id |-> 1, title |-> "a", tags |-> <<"React">>, links |-> 2],
    [id |-> 2, title |-> "b", tags |-> <<"React", "Node.js">>, links |-> 0],
    [id |-> 3, title |-> "c", tags |-> <<>>, links |-> 0] }

FetchedArrays == UNION {[1..n -> Templates] : n \in 0..MaxProjects}

JsonValues ==
  {JsonArray(items) : items \in FetchedArrays} \cup {JsonOther("object"), JsonOther("null")}

\* outcomes of the fetch: network failure, non-OK status, OK with a body
\* that does not parse, OK with a parsed JSON value
Responses ==
  {[status |-> "neterr", parses |-> FALSE, data |-> JsonOther("null")],
   [status |-> "ok", parses |-> FALSE, data |-> JsonOther("null")]}
    \cup {[status |-> "notok", parses |-> b, data |-> JsonArray(<<>>)] : b \in BOOLEAN}
    \cup {[status |-> "ok", parses |-> TRUE, data |-> d] : d \in JsonValues}

InitFetch ==
  /\ present = Handles
  /\ aria = [s \in Surfaces |-> "true"]
  /\ display = [s \in Surfaces |-> "none"]
  /\ openAttr = [s \in Surfaces |-> FALSE]
  /\ timers = [s \in Surfaces |-> 0]
  /\ overflow = ""
  /\ lastFocused = Null
  /\ focus = Body
  /\ currentBlogId = NullId
  /\ blogs = seedBlogs
  /\ adminAuth = FALSE
  /\ adminPass = Null
  /\ content = [s \in Surfaces |-> 0]
  /\ traps = [s \in Surfaces |-> <<>>]
  /\ savedBlogs = <<>>
  /\ script = "current"
  /\ posts = <<>>
  /\ savedPosts = <<>>
  /\ projects = <<>>
  /\ filteredProjects = <<>>
  /\ currentFilter = "all"
  /\ projectsPc = "fetch"
  /\ theme = "light"
  /\ savedTheme = Null
  /\ searchValue = <<>>
  /\ searchTimer = FALSE
  /\ lastQuery = <<>>
  /\ form = formAtLoad
  /\ submitBtn = submitBtnAtLoad("Send Message")
  /\ contactPc = Idle
  /\ memo = [s |-> "none", e |-> Null]
  /\ tabRun = NoRun
  /\ lastOp = Op("init", "none", FALSE)

\* the fetch settles and initProjects runs to its end
FetchSettles ==
  /\ projectsPc = "fetch"
  /\ \E res \in Responses : Step(initProjects(Cur, res), Op("fetch", "none", FALSE), NoRun)

\* the tags that have a filter button (renderFilterTags)
FilterTags == UNION {SeqToSet(projects[i].tags) : i \in 1..Len(projects)}

ToggleFilter ==
  /\ projectsPc = "done"
  /\ \E tag \in FilterTags : Step(toggleFilter(Cur, tag), Op("filter", "none", FALSE), NoRun)

\* a click on the card of a project shown in the grid: the card takes
\* focus and its listener calls openProjectModal(p)
ProjectCardClick ==
  /\ CanOpen("project")
  /\ display["project"] = "none"
  /\ \E i \in 1..Len(filteredProjects) :
       Step(openProjectModal([Cur EXCEPT !.focus = "pcard"], filteredProjects[i].links),
            Op("open", "project", IsOpen("project")), NoRun)

NextFetch ==
  \/ TimerFire
  \/ Quiet /\ FetchSettles
  \/ Quiet /\ ToggleFilter
  \/ Quiet /\ ProjectCardClick
  \/ Quiet /\ CloseProjectModal

SpecFetch == InitFetch /\ [][NextFetch]_vars

(***************************************************************************)
(* Theme: the toggle buttons and the system's colour-scheme changes, on    *)
(* the page that loads and shows the projects                              *)
(***************************************************************************)
ToggleTheme == Step(toggleTheme(Cur), Op("theme", "none", FALSE), NoRun)

SystemThemeChange ==
  \E matches \in BOOLEAN :
    Step(systemThemeChange(Cur, matches), Op("system", "none", FALSE), NoRun)

NextTheme ==
  \/ TimerFire
  \/ Quiet /\ ToggleTheme
  \/ Quiet /\ SystemThemeChange
  \/ Quiet /\ FetchSettles
  \/ Quiet /\ ToggleFilter
  \/ Quiet /\ ProjectCardClick
  \/ Quiet /\ CloseProjectModal

SpecTheme == InitFetch /\ [][NextTheme]_vars

(***************************************************************************)
(* Project search: the tag filters and the search box on a page whose      *)
(* projects are loaded                                                     *)
(***************************************************************************)
InitSearch ==
  /\ present = Handles
  /\ aria = [s \in Surfaces |-> "true"]
  /\ display = [s \in Surfaces |-> "none"]
  /\ openAttr = [s \in Surfaces |-> FALSE]
  /\ timers = [s \in Surfaces |-> 0]
  /\ overflow = ""
  /\ lastFocused = Null
  /\ focus = Body
  /\ currentBlogId = NullId
  /\ blogs = seedBlogs
  /\ adminAuth = FALSE
  /\ adminPass = Null
  /\ content = [s \in Surfaces |-> 0]
  /\ traps = [s \in Surfaces |-> <<>>]
  /\ savedBlogs = <<>>
  /\ script = "current"
  /\ posts = <<>>
  /\ savedPosts = <<>>
  /\ projects \in {demoProjects} \cup (FetchedArrays \ {<<>>})
  /\ filteredProjects = projects
  /\ currentFilter = "all"
  /\ projectsPc = "done"
  /\ theme = "light"
  /\ savedTheme = Null
  /\ searchValue = <<>>
  /\ searchTimer = FALSE
  /\ lastQuery = <<>>
  /\ form = formAtLoad
  /\ submitBtn = submitBtnAtLoad("Send Message")
  /\ contactPc = Idle
  /\ memo = [s |-> "none", e |-> Null]
  /\ tabRun = NoRun
  /\ lastOp = Op("init", "none", FALSE)

\* values typed into the search box
SearchValues ==
  { <<>>, <<" ">>, <<"a">>, <<"R", "E">>, <<" ", "s", "h", "o", "p", " ">>, <<"x">> }

SearchInput ==
  \E v \in SearchValues \ {searchValue} :
    Step(searchInput(Cur, v), Op("search", "none", FALSE), NoRun)

SearchCallback ==
  /\ searchTimer
  /\ Step(searchCallback(Cur), Op("search", "none", FALSE), NoRun)

NextSearch ==
  \/ ToggleFilter
  \/ SearchInput
  \/ SearchCallback

SpecSearch == InitSearch /\ [][NextSearch]_vars

(***************************************************************************)
(* Contact form: typing, leaving a field, submitting, and the request      *)
(***************************************************************************)
\* the text of the submit button in the page's markup
Labels == {"Send Message", "Send"}

InitContact ==
  /\ present = Handles
  /\ aria = [s \in Surfaces |-> "true"]
  /\ display = [s \in Surfaces |-> "none"]
  /\ openAttr = [s \in Surfaces |-> FALSE]
  /\ timers = [s \in Surfaces |-> 0]
  /\ overflow = ""
  /\ lastFocused = Null
  /\ focus = Body
  /\ currentBlogId = NullId
  /\ script \in Scripts
  /\ blogs = IF script = "current" THEN seedBlogs ELSE <<>>
  /\ posts = IF script = "old" THEN seedPosts ELSE <<>>
  /\ adminAuth = FALSE
  /\ adminPass = Null
  /\ content = [s \in Surfaces |-> 0]
  /\ traps = [s \in Surfaces |-> <<>>]
  /\ savedBlogs = <<>>
  /\ savedPosts = <<>>
  /\ projects = demoProjects
  /\ filteredProjects = demoProjects
  /\ currentFilter = "all"
  /\ projectsPc = "done"
  /\ theme = "light"
  /\ savedTheme = Null
  /\ searchValue = <<>>
  /\ searchTimer = FALSE
  /\ lastQuery = <<>>
  /\ form = formAtLoad
  /\ \E label \in Labels : submitBtn = submitBtnAtLoad(label)
  /\ contactPc = Idle
  /\ memo = [s |-> "none", e |-> Null]
  /\ tabRun = NoRun
  /\ lastOp = Op("init", "none", FALSE)

\* values typed into the fields
FieldValues(f) ==
  CASE f = "name" -> {<<>>, <<" ">>, <<"x">>}
    [] f = "email" -> {<<>>, <<"x">>, <<"a", "@", "b", ".", "c">>}
    [] OTHER -> {<<>>, <<"x">>}

FieldInput ==
  \E f \in FieldNames : \E v \in FieldValues(f) \ {form.values[f]} :
    Step(fieldInput(Cur, f, v), Op("input", "none", FALSE), NoRun)

FieldBlur ==
  \E f \in FieldNames : Step(validateField(Cur, f), Op("blur", "none", FALSE), NoRun)

\* a submit event: the browser dispatches none while the submit button is
\* disabled
Submit ==
  /\ ~submitBtn.disabled
  /\ Step(submitHandler(Cur), Op("submit", "none", FALSE), NoRun)

ContactFetchSettles ==
  /\ contactPc.at = "fetch"
  /\ \E status \in {"neterr", "ok", "notok"} :
       Step(contactFetchSettles(Cur, status), Op("fetch", "none", FALSE), NoRun)

ContactJsonSettles ==
  /\ contactPc.at = "json"
  /\ \E parses \in BOOLEAN :
       Step(contactJsonSettles(Cur, parses), Op("json", "none", FALSE), NoRun)

NextContact ==
  \/ FieldInput
  \/ FieldBlur
  \/ Submit
  \/ ContactFetchSettles
  \/ ContactJsonSettles

\* a request that was sent settles, and so does the reading of its body
SpecContact ==
  /\ InitContact
  /\ [][NextContact]_vars
  /\ WF_vars(ContactFetchSettles)
  /\ WF_vars(ContactJsonSettles)

(***************************************************************************)
(* The modals with events arriving while a 20 ms timer is pending          *)
(***************************************************************************)
\* an event handler may run between an open and the callback of its timer
NextTimers ==
  \/ TimerFire
  \/ OpenProjectModal
  \/ OpenBlogModal
  \/ CloseProjectModal
  \/ CloseBlogModal
  \/ EscapeKey
  \/ BackdropClick
  \/ CloseButtonClick

SpecTimers == Init /\ [][NextTimers]_vars

(***************************************************************************)
(* Claims                                                                  *)
(***************************************************************************)
\* C1: when close(A) is called after open(A) with no other open in between,
\* and the element e that held focus when open(A) was called is still
\* attached, the focused element after the close is e.  (memo holds the
\* surface and the activeElement of the latest open; e is an element, not
\* the body.)
C1_FocusReturnsToOpener ==
  (/\ lastOp.op = "close"
   /\ lastOp.s = memo.s
   /\ memo.e \notin {Null, Detached, Body})
  => focus = memo.e

Observable(w) ==
  [aria |-> w.aria, display |-> w.display, openAttr |-> w.openAttr,
   overflow |-> w.overflow, focus |-> w.focus, currentBlogId |-> w.currentBlogId]

close(w, s) == IF s = "project" THEN closeProjectModal(w) ELSE closeBlogModal(w)

\* C2: at most one of the two dialog surfaces is open (aria-hidden "false").
C2_AtMostOneOpen == Cardinality({s \in Surfaces : IsOpen(s)}) <= 1

\* C3: the page scroll is locked (body overflow "hidden") exactly when some
\* dialog surface is open.
C3_ScrollLockedIffOpen == (overflow = "hidden") <=> (\E s \in Surfaces : IsOpen(s))

\* C4: after any close of surface A no focus-trap listener remains on A's
\* container.
C4_CloseRemovesTrap == lastOp.op = "close" => traps[lastOp.s] = <<>>

\* C5: after an open of surface A made while A was already open, exactly
\* one Tab-wrapping handler is installed on A's container.
C5_ReentrantOpenOneTrap ==
  (lastOp.op = "open" /\ lastOp.wasOpen) => Len(traps[lastOp.s]) = 1

\* C6: from every state in which surface s is open, the Escape key, a click
\* on the backdrop of s and the close button of s each leave the state that
\* calling close(s) leaves.
C6_DismissalsEqualClose ==
  \A s \in Surfaces :
    IsOpen(s) =>
      /\ escapeKey(Cur) = close(Cur, s)
      /\ documentClick(Cur, ModalId[s]) = close(Cur, s)
      /\ closeButtonClick(Cur, s) = close(Cur, s)

\* C7: close is idempotent: in every reachable state, calling close(s) twice
\* in a row leaves the same observable state (visibility, aria-hidden,
\* scroll lock, focused element, currentBlogId) as calling it once.
C7_CloseIdempotent ==
  \A s \in Surfaces :
    Observable(close(close(Cur, s), s)) = Observable(close(Cur, s))

\* a close of an open surface has just restored focus to a page element, and
\* the surface is closed for the second call
C7_Witness ==
  /\ lastOp.op = "close" /\ lastOp.wasOpen
  /\ ~IsOpen(lastOp.s)
  /\ focus = lastFocused /\ focus \in PageEls
  /\ traps[lastOp.s] # <<>>

\* C8: closing a surface that is already closed changes nothing, the
\* focused element included.
C8_CloseClosedIsNoOp ==
  \A s \in Surfaces : ~IsOpen(s) => close(Cur, s) = Cur

\* C9: after open with N >= 1 focusable descendants, N presses of Tab that
\* start with focus on the first focusable element bring focus back to the
\* first element, and focus stays inside the container in between.  (tabRun
\* counts the presses of the run.)
C9_TabCycle ==
  tabRun.k >= 1 =>
    LET focusable == Focusable(Cur, tabRun.s) IN
    /\ focus \in SeqToSet(focusable)
    /\ tabRun.k = Len(focusable) => focus = focusable[1]

\* three presses of Tab have gone from Close over both links back to Close
C9_Witness ==
  /\ tabRun = [s |-> "project", k |-> 3]
  /\ Focusable(Cur, "project") = <<"pclose", "p1", "p2">>
  /\ Len(traps["project"]) = 1
  /\ focus = "pclose"

\* C10: while a dialog is open, Shift+Tab on the first focusable descendant
\* moves focus to the last and Tab on the last moves focus to the first;
\* with the focusable descendants [Close, Link, Button], open focuses Close,
\* Tab goes to Link, Tab goes to Button, Tab wraps to Close and Shift+Tab
\* from Close wraps to Button.
C10_WrapAndScenario ==
  \A s \in Surfaces :
    LET focusable == Focusable(Cur, s)
        n == Len(focusable)
    IN (IsOpen(s) /\ n >= 1) =>
         /\ focus = focusable[1] => tabKey(Cur, TRUE).focus = focusable[n]
         /\ focus = focusable[n] => tabKey(Cur, FALSE).focus = focusable[1]
         /\ n = 3 =>
              /\ (lastOp.op = "open" /\ lastOp.s = s) => focus = focusable[1]
              /\ focus = focusable[1] => tabKey(Cur, FALSE).focus = focusable[2]
              /\ focus = focusable[2] => tabKey(Cur, FALSE).focus = focusable[3]

\* C11: while a surface is open and focus is on one of its focusable
\* descendants, a Tab on an element that is not the current last one and a
\* Shift+Tab on an element that is not the current first one are prevented
\* by no listener of the container, and focus moves to the next / previous
\* focusable descendant.
C11_OnlyCurrentEndsIntercepted ==
  \A s \in Surfaces :
    LET focusable == Focusable(Cur, s)
        n == Len(focusable)
        i == IndexOf(focusable, focus)
        k(shift) == runHandlers([w |-> Cur, prevented |-> FALSE], traps[s], shift)
    IN (IsOpen(s) /\ focus \in SeqToSet(focusable)) =>
         /\ focus # focusable[n] =>
              ~k(FALSE).prevented /\ tabKey(Cur, FALSE).focus = focusable[i + 1]
         /\ focus # focusable[1] =>
              ~k(TRUE).prevented /\ tabKey(Cur, TRUE).focus = focusable[i - 1]

\* where focus rests after an open that took place (state w): on the close
\* control if the container has one, else on the first focusable descendant
\* if there is any
FocusAfterOpen(w, s) ==
  LET focusable == Focusable(w, s) IN
  /\ CloseSel[s] \in w.present => w.focus = CloseEl[s]
  /\ (CloseSel[s] \notin w.present /\ Len(focusable) >= 1) => w.focus = focusable[1]

\* C12: from every reachable state, an open of a surface whose container
\* and body exist (and, for the blog modal, whose blog exists) leaves focus
\* on the surface's close control if it has one, and otherwise on the first
\* focusable descendant of the container if it has one.
C12_OpenFocusesCloseOrFirst ==
  /\ {ModalId["project"], BodyId["project"]} \subseteq present =>
       \A n \in ProjectLinks : FocusAfterOpen(openProjectModal(Cur, n), "project")
  /\ {ModalId["blog"], BodyId["blog"]} \subseteq present =>
       \A id \in BlogIds :
         HasBlog(Cur, id) => FocusAfterOpen(openBlogModal(Cur, id), "blog")

\* state w follows a re-entrant open of surface s: the memento is the one
\* held before the call, and a close of s then focuses it if it is an
\* element of the page that can take focus
MementoKept(w, s) ==
  /\ w.lastFocused = lastFocused
  /\ (lastFocused \in PageEls /\ Rendered(close(w, s), lastFocused))
       => close(w, s).focus = lastFocused

\* C13: while surface s is open (and the memento is the one its open
\* captured), another open of s, or editBlog re-opening the blog shown,
\* leaves the memento as it was, so that the next close of s returns focus
\* to the element focused before the dialog was first opened.
C13_ReentrantOpenKeepsMemento ==
  /\ (IsOpen("project") /\ memo.s = "project") =>
       \A n \in ProjectLinks : MementoKept(openProjectModal(Cur, n), "project")
  /\ (IsOpen("blog") /\ memo.s = "blog" /\ HasBlog(Cur, currentBlogId)) =>
       /\ MementoKept(openBlogModal(Cur, currentBlogId), "blog")
       /\ isAdmin(Cur) => MementoKept(editBlog(Cur, currentBlogId, "", ""), "blog")

\* C14: in every reachable state in which no surface is open, no focus
\* memento is retained (lastFocused is null), so that a later close has no
\* element of an earlier activation to focus.
C14_NoMementoWhenClosed ==
  (\A s \in Surfaces : ~IsOpen(s)) =>
    /\ lastFocused = Null
    /\ \A s \in Surfaces : close(Cur, s).focus = focus

\* what a click can land on that is no backdrop: an element of the page or
\* of a dialog's content, or anything else
NonBackdropTargets ==
  PageEls \cup {CloseEl[s] : s \in Surfaces}
    \cup UNION {SeqToSet(ContentEl[s]) : s \in Surfaces} \cup {"elsewhere"}

\* C15: in every reachable state the document click listeners change
\* nothing (open/closed state of either surface, scroll lock, memento,
\* focus) for a click whose target is not a backdrop, and for a click on
\* the backdrop of one surface they leave the other surface as it is.
C15_ClickOffBackdropChangesNothing ==
  /\ \A target \in NonBackdropTargets : documentClick(Cur, target) = Cur
  /\ \A s \in Surfaces :
       \A t \in Surfaces \ {s} :
         LET w == documentClick(Cur, ModalId[s]) IN
         /\ w.aria[t] = aria[t]
         /\ w.display[t] = display[t]

\* the blog modal is open, the scroll is locked, the memento is the card
\* that opened it, and the user has clicked into the dialog's content
C15_Witness ==
  /\ IsOpen("blog") /\ overflow = "hidden"
  /\ lastFocused = "bcard"
  /\ focus = "b1"
  /\ documentClick(Cur, focus) = Cur
  /\ documentClick(Cur, ModalId["blog"]) # Cur

\* C16: in every reachable state, the Escape listener leaves no surface
\* open and, if a surface was open, the scroll unlocked; when no surface is
\* open it changes nothing.
C16_EscapeClosesOpenSurface ==
  LET w == escapeKey(Cur) IN
  /\ \A s \in Surfaces : w.aria[s] = "true" /\ w.display[s] = "none"
  /\ w.overflow = ""
  /\ (\A s \in Surfaces : ~IsOpen(s)) => w = Cur

\* both surfaces are open with the scroll locked, and Escape acts on the state
C16_Witness ==
  /\ IsOpen("project") /\ IsOpen("blog")
  /\ overflow = "hidden"
  /\ SurfaceOf(focus) = "blog"
  /\ escapeKey(Cur).focus # focus

\* C17: in every reachable state, for a surface whose container or body is
\* absent from the page, open and close return the state unchanged (memento,
\* scroll lock, currentBlogId, focus, listeners), and so does openBlogModal
\* for an id that no blog has.
C17_MissingHandlesNoOp ==
  /\ (ModalId["project"] \notin present \/ BodyId["project"] \notin present) =>
       /\ \A n \in ProjectLinks : openProjectModal(Cur, n) = Cur
       /\ closeProjectModal(Cur) = Cur
  /\ (ModalId["blog"] \notin present \/ BodyId["blog"] \notin present) =>
       /\ \A id \in BlogIds : openBlogModal(Cur, id) = Cur
       /\ closeBlogModal(Cur) = Cur
  /\ \A id \in BlogIds : ~HasBlog(Cur, id) => openBlogModal(Cur, id) = Cur

\* membership, title and content of the list of blogs / of posts
BlogText(q) == [i \in 1..Len(q) |-> [id |-> q[i].id, title |-> q[i].title, content |-> q[i].content]]
PostText(q) == [i \in 1..Len(q) |-> [id |-> q[i].id, content |-> q[i].content]]

\* state w has the lists of blogs and posts, in memory and persisted, of the
\* current state
ListsKept(w) ==
  /\ w.blogs = blogs /\ w.savedBlogs = savedBlogs
  /\ w.posts = posts /\ w.savedPosts = savedPosts

\* with isAdmin() false, add, edit and delete change neither list
NonAdminCannotChange ==
  ~isAdmin(Cur) =>
    /\ \A now \in NewIds, titleVal \in TextInputs, contentVal \in TextInputs :
         ListsKept(addBlog(Cur, now, titleVal, contentVal))
    /\ \A id \in BlogIds, newTitle \in TextAnswers, newContent \in TextAnswers :
         ListsKept(editBlog(Cur, id, newTitle, newContent))
    /\ \A id \in BlogIds, confirmed \in BOOLEAN : ListsKept(deleteBlog(Cur, id, confirmed))
    /\ \A now \in NewIds, val \in TextInputs : ListsKept(addPost(Cur, now, val))
    /\ \A id \in BlogIds, val \in PostAnswers : ListsKept(editPost(Cur, id, val))
    /\ \A id \in BlogIds, confirmed \in BOOLEAN : ListsKept(deletePost(Cur, id, confirmed))

\* a step that changes membership, title or content of a list is an add,
\* edit or delete made while isAdmin() is true
ChangedByAdminOnly ==
  (BlogText(blogs') # BlogText(blogs) \/ PostText(posts') # PostText(posts)) =>
    /\ isAdmin(Cur)
    /\ AddBlog \/ EditBlogText \/ DeleteBlog \/ AddPost \/ EditPost \/ DeletePost

\* C18: in every state where isAdmin() is false, addBlog, editBlog and
\* deleteBlog (addPost, editPost, deletePost) leave the in-memory and the
\* persisted list unchanged; and every step that changes the membership,
\* the title or the content of a list is one of these operations made
\* while isAdmin() is true.
C18_OnlyAdminChangesBlogs == []NonAdminCannotChange /\ [][ChangedByAdminOnly]_vars

\* the admin has added a blog and logged out: the list holds the new blog,
\* is persisted, and isAdmin() is false
C18_Witness ==
  /\ ~isAdmin(Cur) /\ adminPass # Null
  /\ HasBlog(Cur, 3)
  /\ savedBlogs = <<blogs>>
  /\ editBlog(Cur, 3, "e", "e") = Cur

\* C19: from every reachable state and for every outcome of the fetch,
\* initProjects leaves state.projects the fetched array when the response
\* is OK and its body parses to an array, the demo list when the fetch
\* fails, the status is not OK or the body does not parse, and the empty
\* list when the body parses to a value that is no array; and
\* state.filteredProjects equals state.projects.
C19_ProjectsLoadWithFallback ==
  \A res \in Responses :
    LET w == initProjects(Cur, res) IN
    /\ (res.status = "ok" /\ res.parses /\ IsArray(res.data)) => w.projects = res.data.items
    /\ (res.status \in {"neterr", "notok"} \/ ~res.parses) => w.projects = demoProjects
    /\ (res.status = "ok" /\ res.parses /\ ~IsArray(res.data)) => w.projects = <<>>
    /\ w.projects \in Seq(Templates \cup SeqToSet(demoProjects))
    /\ w.filteredProjects = w.projects

\* initProjects has completed with the demo list: the fetch had failed
C19_Witness ==
  /\ projectsPc = "done"
  /\ projects = demoProjects
  /\ filteredProjects = projects
  /\ currentFilter = "all"

\* C20: in every reachable state, also when close, Escape or a backdrop
\* click comes before the 20 ms timer of the open fires, a surface whose
\* aria-hidden is "true" does not carry the "open" attribute.
C20_OpenAttrOnlyWhileOpen ==
  \A s \in Surfaces : aria[s] = "true" => ~openAttr[s]

\* C21: in every reachable state, state.currentBlogId is non-null exactly
\* when the blog modal is open (aria-hidden "false"), and when it is
\* non-null it is the id of a blog in state.blogs.
C21_CurrentBlogIdIffOpen ==
  /\ currentBlogId # NullId <=> IsOpen("blog")
  /\ currentBlogId # NullId => HasBlog(Cur, currentBlogId)

\* the admin has blog 1 open in the modal (with its Edit and Delete
\* buttons), and deleting it closes the modal and clears currentBlogId
C21_Witness ==
  /\ IsOpen("blog") /\ currentBlogId = 1
  /\ isAdmin(Cur) /\ content["blog"] = 3
  /\ ~HasBlog(deleteBlog(Cur, 1, TRUE), 1)
  /\ deleteBlog(Cur, 1, TRUE).currentBlogId = NullId

\* list `after` is list `before` with the entry at index i toggled: liked
\* flipped, likes one more if it became liked and one less if it became
\* unliked, every other entry and field as before
Toggled(before, after, i) ==
  /\ Len(after) = Len(before)
  /\ after[i].liked = ~before[i].liked
  /\ after[i].likes = before[i].likes + (IF after[i].liked THEN 1 ELSE -1)
  /\ after = [before EXCEPT ![i].liked = after[i].liked, ![i].likes = after[i].likes]

\* ids the like buttons can pass: of the seeded entries, of an added one,
\* and one that no entry has
LikeIds == {1, 2, 3, 4}

\* C22: in every reachable state, whatever isAdmin() is, likeBlog(id)
\* (likePost(id)) on an existing entry toggles its liked flag and changes
\* its likes by +1 / -1 accordingly; a second call with the same id
\* restores the list; a call with an id that no entry has changes nothing.
C22_LikeToggles ==
  \A id \in LikeIds :
    /\ HasBlog(Cur, id) =>
         /\ Toggled(blogs, likeBlog(Cur, id).blogs, FindId(blogs, id))
         /\ likeBlog(Cur, id).savedBlogs = <<likeBlog(Cur, id).blogs>>
         /\ likeBlog(likeBlog(Cur, id), id).blogs = blogs
    /\ ~HasBlog(Cur, id) => likeBlog(Cur, id) = Cur
    /\ HasPost(Cur, id) =>
         /\ Toggled(posts, likePost(Cur, id).posts, FindId(posts, id))
         /\ likePost(Cur, id).savedPosts = <<likePost(Cur, id).posts>>
         /\ likePost(likePost(Cur, id), id).posts = posts
    /\ ~HasPost(Cur, id) => likePost(Cur, id) = Cur

\* a visitor (isAdmin() false) has liked the first seeded blog: 5 likes
\* have become 6, and the list is persisted
C22_Witness ==
  /\ ~isAdmin(Cur)
  /\ HasBlog(Cur, 1)
  /\ blogs[FindId(blogs, 1)].liked
  /\ blogs[FindId(blogs, 1)].likes = 6
  /\ savedBlogs = <<blogs>>

\* a password is stored
PassStored(w) == w.adminPass \notin {Null, ""}

\* state w follows an admin-toggle click answered with ok (confirm), p1 and
\* p2 (the two prompts for a new password) and attempt (the login prompt)
ToggleOutcome(w, ok, p1, p2, attempt) ==
  /\ (w.adminAuth /\ ~adminAuth) =>
       \/ ~PassStored(Cur) /\ p1 \notin {Null, ""} /\ p1 = p2 /\ w.adminPass = p1
       \/ PassStored(Cur) /\ attempt = adminPass
  /\ (~isAdmin(Cur) /\ ~PassStored(Cur) /\ (p1 \in {Null, ""} \/ p1 # p2)) => w = Cur
  /\ (~isAdmin(Cur) /\ PassStored(Cur) /\ attempt # adminPass) => w = Cur
  /\ (adminAuth /\ ~w.adminAuth) => ok
  /\ PassStored(Cur) => w.adminPass = adminPass

AdminClickOutcomes ==
  \A ok \in BOOLEAN, p1 \in AdminAnswers, p2 \in AdminAnswers, attempt \in AdminAnswers :
    ToggleOutcome(adminToggleClick(Cur, ok, p1, p2, attempt), ok, p1, p2, attempt)

\* a step that changes the admin flag or the stored password is an
\* admin-toggle click
AdminChangedByToggleOnly ==
  (adminAuth' # adminAuth \/ adminPass' # adminPass) => AdminToggleAny

\* C23: the admin flag becomes set only by an admin-toggle click in which
\* no password is stored and two equal non-empty passwords are entered, or
\* the attempt equals the stored password; a cancelled, empty, mismatched or
\* incorrect entry leaves flag and password unchanged; the flag is cleared
\* only by a confirmed logout; a stored password never changes.
C23_AdminFlagByPasswordOnly == []AdminClickOutcomes /\ [][AdminChangedByToggleOnly]_vars

\* a password is stored, the admin has logged out, and a login with the
\* other password is refused while one with the stored password succeeds
C23_Witness ==
  /\ ~isAdmin(Cur) /\ adminPass = "pw"
  /\ adminToggleClick(Cur, FALSE, Null, Null, "pw2") = Cur
  /\ isAdmin(adminToggleClick(Cur, FALSE, Null, Null, "pw"))

\* what the theme handlers do in the current state
ThemeOutcomes ==
  /\ theme \in Themes
  /\ savedTheme # Null =>
       /\ \A matches \in BOOLEAN : systemThemeChange(Cur, matches) = Cur
       /\ \A system \in Themes : initTheme(Cur, system).theme = savedTheme
  /\ savedTheme = Null =>
       \A matches \in BOOLEAN :
         systemThemeChange(Cur, matches).theme = (IF matches THEN "dark" ELSE "light")
  /\ toggleTheme(Cur).theme \in Themes \ {theme}
  /\ toggleTheme(Cur).savedTheme = toggleTheme(Cur).theme

\* once a value is persisted it stays persisted, and only toggleTheme
\* changes state.theme from then on
ThemeChosenStays ==
  savedTheme # Null =>
    /\ savedTheme' # Null
    /\ theme' # theme => ToggleTheme

\* C24: once toggleTheme has run (a value is persisted), no system
\* colour-scheme change alters state.theme, and a reload takes the
\* persisted value; with no persisted value a system change sets
\* state.theme to the system value; every toggleTheme flips state.theme
\* between "light" and "dark" and persists the new value.
C24_ChosenThemeWins == []ThemeOutcomes /\ [][ThemeChosenStays]_vars

\* the user has chosen dark: the value is persisted, and a system change
\* to light is ignored
C24_Witness ==
  /\ theme = "dark" /\ savedTheme = "dark"
  /\ systemThemeChange(Cur, FALSE).theme = "dark"
  /\ projectsPc = "done"

\* the sublist of state.projects that carries the current tag filter and
\* matches the query q
FilteredBy(w, q) ==
  SelectSeq(w.projects,
            LAMBDA p : /\ w.currentFilter = "all" \/ HasTag(p, w.currentFilter)
                       /\ matchesQuery(p, q))

\* C25: after any sequence of tag-filter toggles and search inputs,
\* state.filteredProjects is exactly the sublist of state.projects that
\* carries the current tag filter (all projects when the filter is "all")
\* and matches the most recently applied search query; a tag toggled on and
\* toggled again leaves currentFilter at "all".
C25_FilteredIsFilterAndQuery ==
  /\ filteredProjects = FilteredBy(Cur, lastQuery)
  /\ \A tag \in FilterTags \ {currentFilter} :
       toggleFilter(toggleFilter(Cur, tag), tag).currentFilter = "all"

\* a field fails validation: it is required and blank, or it is the email
\* field and holds a value that is not an address
FailsValidation(w, f) == fieldMessage(w, f) # ""

\* a submit that is refused sends no request and leaves the button as it
\* is, enabled; a submit that is accepted sends the request and disables
\* the button; the button is disabled exactly while a request is in flight
SubmitOutcomes ==
  /\ ~submitBtn.disabled =>
       LET after == submitHandler(Cur)
       IN IF \/ \E f \in FieldNames : FailsValidation(Cur, f)
             \/ form.values["_gotcha"] # <<>>
          THEN /\ after.contactPc = Idle
               /\ after.submitBtn = submitBtn
          ELSE /\ after.contactPc.at = "fetch"
               /\ after.submitBtn.disabled
  /\ contactPc.at # "idle" <=> submitBtn.disabled

\* a disabled button is enabled again, with the label it has in the markup
ReenabledWithLabel ==
  \A label \in Labels :
    submitBtn.textContent = label =>
      [](submitBtn.disabled => <>(~submitBtn.disabled /\ submitBtn.textContent = label))

\* C26: for every contact-form submit: if a field fails validation or the
\* honeypot is filled, no request is sent and the submit button stays
\* enabled; otherwise the button is disabled while the request is in flight
\* and is eventually enabled again with its original label, whatever the
\* outcome (success, error response, network failure, unparseable body).
C26_SubmitDisablesUntilSettled == []SubmitOutcomes /\ ReenabledWithLabel

\* the request got an error response and its body is being read: the
\* button is disabled, and the body failing to parse enables it with the
\* label of the markup
C26_Witness ==
  /\ contactPc = [at |-> "json", ok |-> FALSE]
  /\ submitBtn.disabled /\ submitBtn.textContent = "Sending..."
  /\ submitBtn.origText = "Send"
  /\ contactJsonSettles(Cur, FALSE).contactPc = Idle
  /\ ~contactJsonSettles(Cur, FALSE).submitBtn.disabled
  /\ contactJsonSettles(Cur, FALSE).submitBtn.textContent = "Send"

====
